---- MODULE Spec2Model ----
(***************************************************************************)
(* State-machine model of contracts/NewsBiasFHE.sol.                       *)
(*                                                                         *)
(* Every public function of the contract is an operator from the storage   *)
(* and the call's arguments to the call's outcome (its result and the      *)
(* storage it leaves), and one action that commits that outcome.  A call   *)
(* that reverts leaves the storage as it was and only records its reason   *)
(* in `last` (the receipt the caller observes).                            *)
(* The FHE library is an external collaborator: a ciphertext handle is an  *)
(* opaque token, an encrypted counter is modelled by the cleartext it      *)
(* encrypts, FHE.requestDecryption hands out consecutive request ids and   *)
(* FHE.checkSignatures accepts or rejects a proof (a Boolean input).       *)
(***************************************************************************)
EXTENDS Integers, Sequences, FiniteSets, TLC

VARIABLES
    articleCount,          \* uint256 public articleCount
    articles,              \* mapping(uint256 => EncryptedArticle)
    analyses,              \* mapping(uint256 => BiasAnalysis)
    encryptedBiasCount,    \* mapping(string => euint32)
    biasCategoryList,      \* string[]
    requestToArticleId,    \* mapping(uint256 => uint256)
    authorizedAnalysts,    \* mapping(address => bool), as the set of true keys
    counterRequest,        \* next request id FHE.requestDecryption returns
    submitted,             \* ids of the ArticleSubmitted events, in order
    requested,             \* ids of the AnalysisRequested events, in order
    last,                  \* latest call: [op, arg, result], result "ok" or the revert reason
    fnArgs,                \* arguments of the classifier functions (SpecClassify)
    fnOut,                 \* their results (SpecClassify)
    data,                  \* the key-value store behind contract.getData/setData (SpecFrontend)
    addArticleCalls        \* the running addArticle invocations of App.tsx (SpecFrontend)

classifier == <<fnArgs, fnOut>>
frontend == <<data, addArticleCalls>>
contract == <<articleCount, articles, analyses, encryptedBiasCount,
              biasCategoryList, requestToArticleId, authorizedAnalysts,
              counterRequest, submitted, requested, last>>
vars == <<articleCount, articles, analyses, encryptedBiasCount,
          biasCategoryList, requestToArticleId, authorizedAnalysts,
          counterRequest, submitted, requested, last, fnArgs, fnOut,
          data, addArticleCalls>>

(***************************************************************************)
(* Bounds of the model.                                                    *)
(***************************************************************************)
MaxArticles == 2
MaxRequests == 2
MaxScore == 100
MaxKeywords == 11
MaxInvocations == 3

(***************************************************************************)
(* Program constants and input domains.                                    *)
(***************************************************************************)
\* TLC's integers are 32-bit signed, so type(uint32).max = 2^32-1 is not a value
\* of the model: the checked-arithmetic bounds are stated divided through.
Uint32MaxDiv2 == 2147483647
Uint32MaxDiv3 == 1431655765

Deployer == "deployer"
Addresses == {"deployer", "analyst", "relayer"}

\* One opaque ciphertext handle: no function of the contract reads its bytes.
Handles == {"h1"}

TierLabels == {"HighlyBiased", "ModeratelyBiased", "SlightlyBiased", "Neutral"}
\* Labels a caller may pass to requestBiasCountDecryption.
CategoryInputs == TierLabels \cup {"Unknown"}

\* keccak256(abi.encodePacked(label)) read as uint256: injective on the labels
\* of the model and far from every article id.
keccak256(label) ==
    CASE label = "HighlyBiased" -> 1001
      [] label = "ModeratelyBiased" -> 1002
      [] label = "SlightlyBiased" -> 1003
      [] label = "Neutral" -> 1004
      [] OTHER -> 1005

bytes32ToUint(b) == b

ArticleIds == 0..MaxArticles
RequestIds == 0..MaxRequests
AnalysisKeys == ArticleIds \cup {bytes32ToUint(keccak256(l)) : l \in TierLabels}

\* An EncryptedArticle without its timestamp (block.timestamp): the contract
\* stores it and no function reads it.
EmptyArticle ==
    [articleId |-> 0, encryptedContent |-> "none", encryptedSentiment |-> "none",
     encryptedKeywords |-> "none"]

EmptyAnalysis ==
    [biasScore |-> "", comparisonResult |-> "", mediaOutlet |-> "",
     isAnalyzed |-> FALSE]

\* An euint32: the zero handle is "not initialized".
NoHandle == [initialized |-> FALSE, value |-> 0]
\* FHE.add wraps modulo 2^32; no counter of the model comes near it.
asEuint32(v) == [initialized |-> TRUE, value |-> v]
isInitialized(h) == h.initialized
add(a, b) == [initialized |-> TRUE, value |-> a.value + b.value]

(***************************************************************************)
(* ABI encoding of the callback's cleartexts, as 32-byte words.            *)
(***************************************************************************)
\* abi.encode(uint32[]): offset word, length word, the elements.
abiEncodeArray(arr) == <<32, Len(arr)>> \o arr
\* abi.encode(uint32)
abiEncodeUint32(v) == <<v>>

DecodeError == [ok |-> FALSE, value |-> <<>>]
Decoded(v) == [ok |-> TRUE, value |-> v]

\* abi.decode(cleartexts, (uint32[])): the array, or DecodeError when the
\* decoder reverts (offset or length outside the data).  Every word of the
\* model is below 2^32, so the decoder's range check of an element passes.
abiDecodeUint32Array(words) ==
    IF Len(words) < 1 THEN DecodeError
    ELSE LET offset == words[1] IN
         IF offset % 32 # 0 \/ offset \div 32 + 1 > Len(words) THEN DecodeError
         ELSE LET at == offset \div 32 + 1
                  n == words[at]
              IN IF at + n > Len(words) THEN DecodeError
                 ELSE Decoded([i \in 1..n |-> words[at + i]])

\* abi.decode(cleartexts, (uint32)): the value, or DecodeError.
abiDecodeUint32(words) ==
    IF Len(words) < 1 THEN DecodeError ELSE Decoded(words[1])

\* Decrypted (contentScore, sentiment, keywords): one triple per bias tier
\* reached in the state machine, and one whose sentiment * 3 exceeds uint32.
Triples ==
    { <<90, 90, 7>>, <<80, 80, 0>>, <<40, 40, 5>>, <<0, 1431655766, 1>> }

\* The cleartexts an analyzeBias callback may carry: the triples, an array of
\* two and of four values, an encoded single count, and no bytes at all.
Cleartexts ==
    {abiEncodeArray(t) : t \in Triples}
        \cup {abiEncodeArray(<<90, 90>>), abiEncodeArray(<<90, 90, 7, 1>>),
              abiEncodeUint32(1), <<>>}

\* The cleartexts a decryptBiasCount callback may carry.
CountCleartexts == {abiEncodeUint32(1), abiEncodeArray(<<90, 90, 7>>), <<>>}

(***************************************************************************)
(* Bias analysis algorithms (pure functions).                              *)
(***************************************************************************)
Panic == "Panic"

\* Checked uint32 arithmetic (Solidity 0.8): contentScore * 2, sentiment * 3 or
\* their sum above 2^32-1 reverts with Panic(0x11).  The last test is
\* 2c + 3s > 2^32-1 halved: c + (3s \div 2) > (2^32-1) \div 2.
uint32Overflows(contentScore, sentiment) ==
    \/ contentScore > Uint32MaxDiv2
    \/ sentiment > Uint32MaxDiv3
    \/ contentScore > Uint32MaxDiv2 - (sentiment + sentiment \div 2)

calculateBiasScore(contentScore, sentiment) ==
    IF uint32Overflows(contentScore, sentiment)
    THEN Panic
    ELSE LET score == (contentScore * 2 + sentiment * 3) \div 5 IN
         IF score > 80 THEN "HighlyBiased"
         ELSE IF score > 60 THEN "ModeratelyBiased"
         ELSE IF score > 40 THEN "SlightlyBiased"
         ELSE "Neutral"

\* Mutant: the thresholds taken inclusively (>= for >).
compareWithBaseline_inclusive(contentScore, sentiment) ==
    LET baseline == 50
        contentDiff == IF contentScore > baseline THEN contentScore - baseline
                       ELSE baseline - contentScore
        sentimentDiff == IF sentiment > baseline THEN sentiment - baseline
                         ELSE baseline - sentiment
    IN IF contentDiff >= 30 \/ sentimentDiff >= 30 THEN "SignificantDeviation"
       ELSE IF contentDiff >= 15 \/ sentimentDiff >= 15 THEN "ModerateDeviation"
       ELSE "WithinNormalRange"

compareWithBaseline(contentScore, sentiment) ==
    LET baseline == 50
        contentDiff == IF contentScore > baseline THEN contentScore - baseline
                       ELSE baseline - contentScore
        sentimentDiff == IF sentiment > baseline THEN sentiment - baseline
                         ELSE baseline - sentiment
    IN IF contentDiff > 30 \/ sentimentDiff > 30 THEN "SignificantDeviation"
       ELSE IF contentDiff > 15 \/ sentimentDiff > 15 THEN "ModerateDeviation"
       ELSE "WithinNormalRange"

\* Mutant: the last test compares with 4 and the fall-through repeats OutletA.
identifyMediaOutlet_wrapEarly(keywords) ==
    IF keywords % 4 = 0 THEN "OutletA"
    ELSE IF keywords % 4 = 1 THEN "OutletB"
    ELSE IF keywords % 4 = 2 THEN "OutletC"
    ELSE "OutletD"

identifyMediaOutlet(keywords) ==
    IF keywords % 5 = 0 THEN "OutletA"
    ELSE IF keywords % 5 = 1 THEN "OutletB"
    ELSE IF keywords % 5 = 2 THEN "OutletC"
    ELSE IF keywords % 5 = 3 THEN "OutletD"
    ELSE "OutletE"

RECURSIVE scanCategoryList(_, _, _)
scanCategoryList(list, i, hash) ==
    IF i > Len(list) THEN "Category not found"
    ELSE IF bytes32ToUint(keccak256(list[i])) = hash THEN list[i]
    ELSE scanCategoryList(list, i + 1, hash)

\* The label of the discovery list whose hash is `hash`, or the revert reason.
getBiasCategoryFromHash(s, hash) == scanCategoryList(s.biasCategoryList, 1, hash)

(***************************************************************************)
(* The contract storage and the outcome of a call.                         *)
(***************************************************************************)
St ==
    [articleCount |-> articleCount, articles |-> articles, analyses |-> analyses,
     encryptedBiasCount |-> encryptedBiasCount,
     biasCategoryList |-> biasCategoryList,
     requestToArticleId |-> requestToArticleId,
     authorizedAnalysts |-> authorizedAnalysts,
     counterRequest |-> counterRequest, submitted |-> submitted,
     requested |-> requested]

\* The call returns and leaves storage `s`.
Returned(s) == [result |-> "ok", storage |-> s]
\* The call reverts: every write and event of the call is rolled back.
Revert(s, reason) == [result |-> reason, storage |-> s]

\* Mutant: the modifier lets every caller through.
onlyAnalyst_anyone(s, caller) == TRUE

onlyAnalyst(s, caller) == caller \in s.authorizedAnalysts

constructor(deployer) ==
    [articleCount |-> 0,
     articles |-> [id \in ArticleIds |-> EmptyArticle],
     analyses |-> [id \in AnalysisKeys |-> EmptyAnalysis],
     encryptedBiasCount |-> [l \in CategoryInputs |-> NoHandle],
     biasCategoryList |-> <<>>,
     requestToArticleId |-> [r \in RequestIds |-> 0],
     authorizedAnalysts |-> {deployer},
     counterRequest |-> 0,
     submitted |-> <<>>,
     requested |-> <<>>]

\* Mutant: the grant goes to msg.sender instead of the argument.
authorizeAnalyst_grantsCaller(s, caller, analyst) ==
    IF ~onlyAnalyst(s, caller) THEN Revert(s, "Unauthorized analyst")
    ELSE Returned([s EXCEPT !.authorizedAnalysts = @ \cup {caller}])

\* Mutant: the flag is toggled instead of set.
authorizeAnalyst_toggle(s, caller, analyst) ==
    IF ~onlyAnalyst(s, caller) THEN Revert(s, "Unauthorized analyst")
    ELSE Returned([s EXCEPT !.authorizedAnalysts =
             IF analyst \in @ THEN @ \ {analyst} ELSE @ \cup {analyst}])

authorizeAnalyst(s, caller, analyst) ==
    IF ~onlyAnalyst(s, caller) THEN Revert(s, "Unauthorized analyst")
    ELSE Returned([s EXCEPT !.authorizedAnalysts = @ \cup {analyst}])

\* Mutant: the id is read before the counter is incremented.
submitEncryptedArticle_idBeforeIncrement(s, caller, encryptedContent, encryptedSentiment, encryptedKeywords) ==
    IF ~onlyAnalyst(s, caller) THEN Revert(s, "Unauthorized analyst")
    ELSE LET newId == s.articleCount IN
         Returned([s EXCEPT
             !.articleCount = @ + 1,
             !.articles[newId] =
                 [articleId |-> newId, encryptedContent |-> encryptedContent,
                  encryptedSentiment |-> encryptedSentiment,
                  encryptedKeywords |-> encryptedKeywords],
             !.analyses[newId] = EmptyAnalysis,
             !.submitted = Append(@, newId)])

submitEncryptedArticle(s, caller, encryptedContent, encryptedSentiment, encryptedKeywords) ==
    IF ~onlyAnalyst(s, caller) THEN Revert(s, "Unauthorized analyst")
    ELSE LET newId == s.articleCount + 1 IN
         Returned([s EXCEPT
             !.articleCount = newId,
             !.articles[newId] =
                 [articleId |-> newId, encryptedContent |-> encryptedContent,
                  encryptedSentiment |-> encryptedSentiment,
                  encryptedKeywords |-> encryptedKeywords],
             !.analyses[newId] = EmptyAnalysis,
             !.submitted = Append(@, newId)])

\* FHE.requestDecryption: registers the request with the oracle and returns the
\* library's request counter.
requestDecryption(s) == s.counterRequest

\* Mutant: the require on isAnalyzed is missing.
requestBiasAnalysis_unchecked(s, caller, articleId) ==
    IF ~onlyAnalyst(s, caller) THEN Revert(s, "Unauthorized analyst")
    ELSE LET reqId == requestDecryption(s) IN
         Returned([s EXCEPT
             !.counterRequest = @ + 1,
             !.requestToArticleId[reqId] = articleId,
             !.requested = Append(@, articleId)])

\* Mutant: a request for an analysed article is accepted and clears its analysis.
requestBiasAnalysis_resets(s, caller, articleId) ==
    IF ~onlyAnalyst(s, caller) THEN Revert(s, "Unauthorized analyst")
    ELSE LET reqId == requestDecryption(s) IN
         Returned([s EXCEPT
             !.counterRequest = @ + 1,
             !.requestToArticleId[reqId] = articleId,
             !.analyses[articleId] = EmptyAnalysis,
             !.requested = Append(@, articleId)])

requestBiasAnalysis(s, caller, articleId) ==
    IF ~onlyAnalyst(s, caller) THEN Revert(s, "Unauthorized analyst")
    ELSE IF s.analyses[articleId].isAnalyzed THEN Revert(s, "Analysis already completed")
    ELSE LET reqId == requestDecryption(s) IN
         Returned([s EXCEPT
             !.counterRequest = @ + 1,
             !.requestToArticleId[reqId] = articleId,
             !.requested = Append(@, articleId)])

\* Mutant: the require is missing.
isValidRequest_unchecked(articleId) == TRUE

\* require(articleId != 0, "Invalid request")
isValidRequest(articleId) == articleId # 0

\* Mutant: the category is pushed on every callback, not only when its counter
\* is created.
analyzeBias_alwaysPush(s, requestId, cleartexts, proof) ==
    LET articleId == s.requestToArticleId[requestId]
        decoded == abiDecodeUint32Array(cleartexts)
        results == decoded.value
    IN
    IF ~isValidRequest(articleId) THEN Revert(s, "Invalid request")
    ELSE IF s.analyses[articleId].isAnalyzed THEN Revert(s, "Analysis already completed")
    ELSE IF ~proof THEN Revert(s, "Invalid proof")
    ELSE IF ~decoded.ok THEN Revert(s, "Decode error")
    ELSE IF Len(results) < 3 THEN Revert(s, Panic)
    ELSE LET contentScore == results[1]
             sentiment == results[2]
             keywords == results[3]
             biasScore == calculateBiasScore(contentScore, sentiment)
         IN
         IF biasScore = Panic THEN Revert(s, Panic)
         ELSE LET known == isInitialized(s.encryptedBiasCount[biasScore])
                  count == IF known THEN s.encryptedBiasCount[biasScore]
                           ELSE asEuint32(0)
              IN Returned([s EXCEPT
                     !.analyses[articleId] =
                         [biasScore |-> biasScore,
                          comparisonResult |-> compareWithBaseline(contentScore, sentiment),
                          mediaOutlet |-> identifyMediaOutlet(keywords),
                          isAnalyzed |-> TRUE],
                     !.biasCategoryList = Append(@, biasScore),
                     !.encryptedBiasCount[biasScore] = add(count, asEuint32(1))])

\* Mutant: FHE.checkSignatures is not called.
analyzeBias_noSignatureCheck(s, requestId, cleartexts, proof) ==
    LET articleId == s.requestToArticleId[requestId]
        decoded == abiDecodeUint32Array(cleartexts)
        results == decoded.value
    IN
    IF ~isValidRequest(articleId) THEN Revert(s, "Invalid request")
    ELSE IF s.analyses[articleId].isAnalyzed THEN Revert(s, "Analysis already completed")
    ELSE IF ~decoded.ok THEN Revert(s, "Decode error")
    ELSE IF Len(results) < 3 THEN Revert(s, Panic)
    ELSE LET contentScore == results[1]
             sentiment == results[2]
             keywords == results[3]
             biasScore == calculateBiasScore(contentScore, sentiment)
         IN
         IF biasScore = Panic THEN Revert(s, Panic)
         ELSE LET known == isInitialized(s.encryptedBiasCount[biasScore])
                  count == IF known THEN s.encryptedBiasCount[biasScore]
                           ELSE asEuint32(0)
              IN Returned([s EXCEPT
                     !.analyses[articleId] =
                         [biasScore |-> biasScore,
                          comparisonResult |-> compareWithBaseline(contentScore, sentiment),
                          mediaOutlet |-> identifyMediaOutlet(keywords),
                          isAnalyzed |-> TRUE],
                     !.biasCategoryList = IF known THEN @ ELSE Append(@, biasScore),
                     !.encryptedBiasCount[biasScore] = add(count, asEuint32(1))])

\* Mutant: the labels are written but isAnalyzed is left false.
analyzeBias_flagNotSet(s, requestId, cleartexts, proof) ==
    LET articleId == s.requestToArticleId[requestId]
        decoded == abiDecodeUint32Array(cleartexts)
        results == decoded.value
    IN
    IF ~isValidRequest(articleId) THEN Revert(s, "Invalid request")
    ELSE IF s.analyses[articleId].isAnalyzed THEN Revert(s, "Analysis already completed")
    ELSE IF ~proof THEN Revert(s, "Invalid proof")
    ELSE IF ~decoded.ok THEN Revert(s, "Decode error")
    ELSE IF Len(results) < 3 THEN Revert(s, Panic)
    ELSE LET contentScore == results[1]
             sentiment == results[2]
             keywords == results[3]
             biasScore == calculateBiasScore(contentScore, sentiment)
         IN
         IF biasScore = Panic THEN Revert(s, Panic)
         ELSE LET known == isInitialized(s.encryptedBiasCount[biasScore])
                  count == IF known THEN s.encryptedBiasCount[biasScore]
                           ELSE asEuint32(0)
              IN Returned([s EXCEPT
                     !.analyses[articleId] =
                         [biasScore |-> biasScore,
                          comparisonResult |-> compareWithBaseline(contentScore, sentiment),
                          mediaOutlet |-> identifyMediaOutlet(keywords),
                          isAnalyzed |-> FALSE],
                     !.biasCategoryList = IF known THEN @ ELSE Append(@, biasScore),
                     !.encryptedBiasCount[biasScore] = add(count, asEuint32(1))])

analyzeBias(s, requestId, cleartexts, proof) ==
    LET articleId == s.requestToArticleId[requestId]
        decoded == abiDecodeUint32Array(cleartexts)
        results == decoded.value
    IN
    IF ~isValidRequest(articleId) THEN Revert(s, "Invalid request")
    ELSE IF s.analyses[articleId].isAnalyzed THEN Revert(s, "Analysis already completed")
    ELSE IF ~proof THEN Revert(s, "Invalid proof")
    ELSE IF ~decoded.ok THEN Revert(s, "Decode error")
    ELSE IF Len(results) < 3 THEN Revert(s, Panic)
    ELSE LET contentScore == results[1]
             sentiment == results[2]
             keywords == results[3]
             biasScore == calculateBiasScore(contentScore, sentiment)
         IN
         IF biasScore = Panic THEN Revert(s, Panic)
         ELSE LET known == isInitialized(s.encryptedBiasCount[biasScore])
                  count == IF known THEN s.encryptedBiasCount[biasScore]
                           ELSE asEuint32(0)
              IN Returned([s EXCEPT
                     !.analyses[articleId] =
                         [biasScore |-> biasScore,
                          comparisonResult |-> compareWithBaseline(contentScore, sentiment),
                          mediaOutlet |-> identifyMediaOutlet(keywords),
                          isAnalyzed |-> TRUE],
                     !.biasCategoryList = IF known THEN @ ELSE Append(@, biasScore),
                     !.encryptedBiasCount[biasScore] = add(count, asEuint32(1))])

\* Mutant: the require on FHE.isInitialized is missing.
requestBiasCountDecryption_unchecked(s, caller, biasCategory) ==
    IF ~onlyAnalyst(s, caller) THEN Revert(s, "Unauthorized analyst")
    ELSE LET reqId == requestDecryption(s) IN
         Returned([s EXCEPT
             !.counterRequest = @ + 1,
             !.requestToArticleId[reqId] = bytes32ToUint(keccak256(biasCategory))])

requestBiasCountDecryption(s, caller, biasCategory) ==
    IF ~onlyAnalyst(s, caller) THEN Revert(s, "Unauthorized analyst")
    ELSE IF ~isInitialized(s.encryptedBiasCount[biasCategory])
    THEN Revert(s, "Category not found")
    ELSE LET reqId == requestDecryption(s) IN
         Returned([s EXCEPT
             !.counterRequest = @ + 1,
             !.requestToArticleId[reqId] = bytes32ToUint(keccak256(biasCategory))])

\* Mutant: the decrypted value is stored back as the category's counter.
decryptBiasCount_storesCount(s, caller, requestId, cleartexts, proof) ==
    LET biasCategoryHash == s.requestToArticleId[requestId]
        category == getBiasCategoryFromHash(s, biasCategoryHash)
    IN
    IF ~onlyAnalyst(s, caller) THEN Revert(s, "Unauthorized analyst")
    ELSE IF category = "Category not found" THEN Revert(s, "Category not found")
    ELSE IF ~proof THEN Revert(s, "Invalid proof")
    ELSE IF ~abiDecodeUint32(cleartexts).ok THEN Revert(s, "Decode error")
    ELSE Returned([s EXCEPT !.encryptedBiasCount[category] =
                      asEuint32(abiDecodeUint32(cleartexts).value)])

decryptBiasCount(s, caller, requestId, cleartexts, proof) ==
    LET biasCategoryHash == s.requestToArticleId[requestId] IN
    IF ~onlyAnalyst(s, caller) THEN Revert(s, "Unauthorized analyst")
    ELSE IF getBiasCategoryFromHash(s, biasCategoryHash) = "Category not found"
    THEN Revert(s, "Category not found")
    ELSE IF ~proof THEN Revert(s, "Invalid proof")
    ELSE IF ~abiDecodeUint32(cleartexts).ok THEN Revert(s, "Decode error")
    ELSE Returned(s)

\* The view functions: a call reads the storage, returns `value` and cannot
\* write.  Neither has a require: an id without a record reads as the default.
Value(s, v) == [result |-> "ok", storage |-> s, value |-> v]

\* The getter of `mapping(uint256 => EncryptedArticle) public articles`.
getArticle(s, articleId) == Value(s, s.articles[articleId])

getBiasAnalysis(s, articleId) ==
    LET a == s.analyses[articleId] IN
    Value(s, <<a.biasScore, a.comparisonResult, a.mediaOutlet, a.isAnalyzed>>)

(***************************************************************************)
(* The web frontend (frontend/web/src/App.tsx).  It keeps its article      *)
(* index in the contract's byte store: contract.setData(key, bytes) and    *)
(* contract.getData(key), each one atomic call; a key never set reads as   *)
(* empty bytes.  Bytes are modelled as the sequence of the JSON text's     *)
(* tokens.                                                                 *)
(***************************************************************************)
Invocations == 1..MaxInvocations

\* `${Date.now()}-${random}`: one fresh id per invocation, ordered by its clock.
articleIdOf(i) == ToString(i)
ArticleKeys == {articleIdOf(i) : i \in Invocations}
\* timestamp: Math.floor(Date.now() / 1000), the clock the id starts with.
timestamp(key) == CHOOSE i \in Invocations : articleIdOf(i) = key

EmptyBytes == <<>>
EmptyData == [article_keys |-> EmptyBytes, article |-> [k \in ArticleKeys |-> EmptyBytes]]

RECURSIVE joinKeys(_)
joinKeys(keys) ==
    IF keys = <<>> THEN <<>>
    ELSE IF Len(keys) = 1 THEN <<keys[1]>>
    ELSE <<keys[1], ",">> \o joinKeys(Tail(keys))

\* ethers.toUtf8Bytes(JSON.stringify(keys))
stringifyKeys(keys) == <<"[">> \o joinKeys(keys) \o <<"]">>

\* ethers.toUtf8Bytes(JSON.stringify(articleData))
stringifyArticle(key) == <<"{", key, "}">>

\* keys = [] unless the bytes are non-empty and JSON.parse succeeds.
parseKeys(keysBytes) ==
    IF Len(keysBytes) = 0 THEN <<>>
    ELSE IF /\ Len(keysBytes) >= 2
            /\ keysBytes[1] = "["
            /\ keysBytes[Len(keysBytes)] = "]"
            /\ Len(keysBytes) = 2 \/ Len(keysBytes) % 2 = 1
            /\ \A n \in 2..(Len(keysBytes) - 1) : (n % 2 = 1) <=> (keysBytes[n] = ",")
         THEN [n \in 1..(Len(keysBytes) \div 2) |-> keysBytes[2 * n]]
         ELSE <<>>

\* list.sort((a, b) => b.timestamp - a.timestamp)
RECURSIVE sortByTimestamp(_)
sortByTimestamp(keySet) ==
    IF keySet = {} THEN <<>>
    ELSE LET newest == CHOOSE k \in keySet :
                           \A o \in keySet : timestamp(o) <= timestamp(k)
         IN <<newest>> \o sortByTimestamp(keySet \ {newest})

\* loadArticles: the keys of article_keys whose article bytes are non-empty,
\* newest first.  It only reads, and an article is never unset, so its reads
\* are taken together.
loadArticles(d) ==
    LET keys == parseKeys(d.article_keys) IN
    sortByTimestamp({keys[n] : n \in {m \in 1..Len(keys) :
                                          Len(d.article[keys[m]]) > 0}})

\* An addArticle invocation: where it is (`at`), its local `keys`, the
\* transactionStatus it shows and the articles its loadArticles set.
NotStarted == [at |-> "start", keys |-> <<>>, status |-> "pending", articles |-> <<>>]

\* await contract.setData(`article_${articleId}`, ...)
SetArticle(i) ==
    /\ addArticleCalls[i].at = "start"
    /\ data' = [data EXCEPT !.article[articleIdOf(i)] = stringifyArticle(articleIdOf(i))]
    /\ addArticleCalls' = [addArticleCalls EXCEPT ![i].at = "stored"]
    /\ UNCHANGED <<contract, classifier>>

\* await contract.getData("article_keys") and the parse into `keys`
GetKeys(i) ==
    /\ addArticleCalls[i].at = "stored"
    /\ addArticleCalls' = [addArticleCalls EXCEPT
           ![i].at = "read", ![i].keys = parseKeys(data.article_keys)]
    /\ UNCHANGED data
    /\ UNCHANGED <<contract, classifier>>

\* keys.push(articleId); await contract.setData("article_keys", ...); success
SetKeys(i) ==
    /\ addArticleCalls[i].at = "read"
    /\ data' = [data EXCEPT !.article_keys =
                   stringifyKeys(Append(addArticleCalls[i].keys, articleIdOf(i)))]
    /\ addArticleCalls' = [addArticleCalls EXCEPT
           ![i].at = "success", ![i].status = "success"]
    /\ UNCHANGED <<contract, classifier>>

\* await loadArticles()
LoadArticles(i) ==
    /\ addArticleCalls[i].at = "success"
    /\ addArticleCalls' = [addArticleCalls EXCEPT
           ![i].at = "done", ![i].articles = loadArticles(data)]
    /\ UNCHANGED data
    /\ UNCHANGED <<contract, classifier>>

\* An awaited call throws (the user rejects the transaction, the node fails):
\* the catch block reports the error.
Throw(i) ==
    /\ addArticleCalls[i].at \in {"start", "stored", "read"}
    /\ addArticleCalls' = [addArticleCalls EXCEPT
           ![i].at = "failed", ![i].status = "error"]
    /\ UNCHANGED data
    /\ UNCHANGED <<contract, classifier>>

(***************************************************************************)
(* The state machine.                                                      *)
(***************************************************************************)
Idle == "idle"

\* The transaction `op(arg, ...)` with outcome `out` is mined.
Commit(op, arg, out) ==
    /\ articleCount' = out.storage.articleCount
    /\ articles' = out.storage.articles
    /\ analyses' = out.storage.analyses
    /\ encryptedBiasCount' = out.storage.encryptedBiasCount
    /\ biasCategoryList' = out.storage.biasCategoryList
    /\ requestToArticleId' = out.storage.requestToArticleId
    /\ authorizedAnalysts' = out.storage.authorizedAnalysts
    /\ counterRequest' = out.storage.counterRequest
    /\ submitted' = out.storage.submitted
    /\ requested' = out.storage.requested
    /\ last' = [op |-> op, arg |-> arg, result |-> out.result]
    /\ UNCHANGED classifier
    /\ UNCHANGED frontend

Init ==
    /\ articleCount = constructor(Deployer).articleCount
    /\ articles = constructor(Deployer).articles
    /\ analyses = constructor(Deployer).analyses
    /\ encryptedBiasCount = constructor(Deployer).encryptedBiasCount
    /\ biasCategoryList = constructor(Deployer).biasCategoryList
    /\ requestToArticleId = constructor(Deployer).requestToArticleId
    /\ authorizedAnalysts = constructor(Deployer).authorizedAnalysts
    /\ counterRequest = constructor(Deployer).counterRequest
    /\ submitted = constructor(Deployer).submitted
    /\ requested = constructor(Deployer).requested
    /\ last = [op |-> "constructor", arg |-> Deployer, result |-> "ok"]
    /\ fnArgs = Idle
    /\ fnOut = Idle
    /\ data = EmptyData
    /\ addArticleCalls = [i \in Invocations |-> NotStarted]

AuthorizeAnalyst ==
    \E caller \in Addresses, analyst \in Addresses :
        Commit("authorizeAnalyst", analyst, authorizeAnalyst(St, caller, analyst))

SubmitEncryptedArticle ==
    /\ articleCount < MaxArticles
    /\ \E caller \in Addresses, h1 \in Handles, h2 \in Handles, h3 \in Handles :
           Commit("submitEncryptedArticle", articleCount + 1,
                  submitEncryptedArticle(St, caller, h1, h2, h3))

RequestBiasAnalysis ==
    /\ counterRequest < MaxRequests
    /\ \E caller \in Addresses, articleId \in ArticleIds :
           Commit("requestBiasAnalysis", articleId,
                  requestBiasAnalysis(St, caller, articleId))

\* analyzeBias has no modifier and never reads msg.sender: anyone may call it.
AnalyzeBias ==
    \E requestId \in RequestIds, cleartexts \in Cleartexts, proof \in BOOLEAN :
        Commit("analyzeBias", requestId,
               analyzeBias(St, requestId, cleartexts, proof))

RequestBiasCountDecryption ==
    /\ counterRequest < MaxRequests
    /\ \E caller \in Addresses, biasCategory \in CategoryInputs :
           Commit("requestBiasCountDecryption", biasCategory,
                  requestBiasCountDecryption(St, caller, biasCategory))

DecryptBiasCount ==
    \E caller \in Addresses, requestId \in RequestIds,
       cleartexts \in CountCleartexts, proof \in BOOLEAN :
        Commit("decryptBiasCount", requestId,
               decryptBiasCount(St, caller, requestId, cleartexts, proof))

Next ==
    \/ AuthorizeAnalyst
    \/ SubmitEncryptedArticle
    \/ RequestBiasAnalysis
    \/ AnalyzeBias
    \/ RequestBiasCountDecryption
    \/ DecryptBiasCount

Spec == Init /\ [][Next]_vars

(***************************************************************************)
(* The decryption service at work: for every registered request it keeps   *)
(* delivering the callback with a valid proof and the encoded triple that   *)
(* the article's ciphertexts decrypt to.                                    *)
(***************************************************************************)
Deliver(requestId) ==
    /\ requestId < counterRequest
    /\ \E t \in Triples :
           Commit("analyzeBias", requestId,
                  analyzeBias(St, requestId, abiEncodeArray(t), TRUE))

SpecLive ==
    /\ Init
    /\ [][Next]_vars
    /\ \A requestId \in RequestIds : WF_vars(Deliver(requestId))

(***************************************************************************)
(* The frontend on its own: MaxInvocations addArticle invocations (browser *)
(* sessions) interleave at their awaits.                                   *)
(***************************************************************************)
InitFrontend == Init

NextFrontend ==
    \/ \E i \in Invocations : SetArticle(i)
    \/ \E i \in Invocations : GetKeys(i)
    \/ \E i \in Invocations : SetKeys(i)
    \/ \E i \in Invocations : LoadArticles(i)
    \/ \E i \in Invocations : Throw(i)

SpecFrontend == InitFrontend /\ [][NextFrontend]_vars

(***************************************************************************)
(* The bias analysis algorithms on their own: Init draws a function and    *)
(* its arguments, the action applies it.                                   *)
(***************************************************************************)
ScoreInputs == 0..MaxScore
\* A sentiment whose triple exceeds uint32, besides the scores.
SentimentInputs == ScoreInputs \cup {1431655766}
\* Small signatures, and the largest one the model's integers hold.
KeywordInputs == (0..MaxKeywords) \cup {Uint32MaxDiv2}

InitClassify ==
    /\ articleCount = constructor(Deployer).articleCount
    /\ articles = constructor(Deployer).articles
    /\ analyses = constructor(Deployer).analyses
    /\ encryptedBiasCount = constructor(Deployer).encryptedBiasCount
    /\ biasCategoryList = constructor(Deployer).biasCategoryList
    /\ requestToArticleId = constructor(Deployer).requestToArticleId
    /\ authorizedAnalysts = constructor(Deployer).authorizedAnalysts
    /\ counterRequest = constructor(Deployer).counterRequest
    /\ submitted = constructor(Deployer).submitted
    /\ requested = constructor(Deployer).requested
    /\ last = [op |-> "constructor", arg |-> Deployer, result |-> "ok"]
    /\ fnArgs \in
           {<<fn, c, st>> : fn \in {"calculateBiasScore", "compareWithBaseline"},
                            c \in ScoreInputs, st \in SentimentInputs}
               \cup {<<"identifyMediaOutlet", k>> : k \in KeywordInputs}
    /\ fnOut = Idle
    /\ data = EmptyData
    /\ addArticleCalls = [i \in Invocations |-> NotStarted]

Apply(fn, value) ==
    /\ fnArgs[1] = fn
    /\ fnOut = Idle
    /\ fnOut' = value
    /\ UNCHANGED <<articleCount, articles, analyses, encryptedBiasCount,
                   biasCategoryList, requestToArticleId, authorizedAnalysts,
                   counterRequest, submitted, requested, last, fnArgs>>
    /\ UNCHANGED frontend

CalculateBiasScore ==
    Apply("calculateBiasScore", calculateBiasScore(fnArgs[2], fnArgs[3]))

CompareWithBaseline ==
    Apply("compareWithBaseline", compareWithBaseline(fnArgs[2], fnArgs[3]))

IdentifyMediaOutlet ==
    Apply("identifyMediaOutlet", identifyMediaOutlet(fnArgs[2]))

NextClassify ==
    \/ CalculateBiasScore
    \/ CompareWithBaseline
    \/ IdentifyMediaOutlet

SpecClassify == InitClassify /\ [][NextClassify]_vars

(***************************************************************************)
(* The specification's classifier, over unbounded integers.                *)
(***************************************************************************)
\* (contentScore*2 + sentiment*3) \div 5, arranged as
\* 3*(s \div 5) + (2c + 3*(s % 5)) \div 5 so that no intermediate value leaves
\* TLC's integer range.
exactScore(contentScore, sentiment) ==
    3 * (sentiment \div 5) + (2 * contentScore + 3 * (sentiment % 5)) \div 5

classifyBiasTier(contentScore, sentiment) ==
    LET score == exactScore(contentScore, sentiment) IN
    CASE score > 80 -> "HighlyBiased"
      [] score > 60 /\ score <= 80 -> "ModeratelyBiased"
      [] score > 40 /\ score <= 60 -> "SlightlyBiased"
      [] score <= 40 -> "Neutral"

Abs(x) == IF x < 0 THEN -x ELSE x
Max(a, b) == IF a > b THEN a ELSE b

classifyDeviation(contentScore, sentiment) ==
    LET d == Max(Abs(contentScore - 50), Abs(sentiment - 50)) IN
    CASE d > 30 -> "SignificantDeviation"
      [] d >= 16 /\ d <= 30 -> "ModerateDeviation"
      [] d <= 15 -> "WithinNormalRange"

identifyOutlet(keywordSignature) ==
    <<"OutletA", "OutletB", "OutletC", "OutletD", "OutletE">>[(keywordSignature % 5) + 1]

(***************************************************************************)
(* C1                                                                      *)
(***************************************************************************)
\* C1: the ids of the ArticleSubmitted events are 1, 2, 3, ... in order: each
\* successful submit assigns the previous id plus one, starting at 1, so id 0
\* is never assigned and no id is assigned twice; the record stored under an
\* assigned id carries that id.
C1_SequentialIds ==
    /\ Len(submitted) = articleCount
    /\ \A i \in 1..Len(submitted) : submitted[i] = i
    /\ \A i \in 1..articleCount : articles[i].articleId = i
    /\ articles[0] = EmptyArticle

C1_Witness ==
    /\ last.op = "submitEncryptedArticle"
    /\ last.result = "ok"
    /\ Len(submitted) >= 2

(***************************************************************************)
(* C2                                                                      *)
(***************************************************************************)
\* C2: once analyses[id].isAnalyzed holds, no step changes analyses[id] (its
\* three labels stay and isAnalyzed is not reset).
C2_AnalysisImmutable ==
    [][\A id \in AnalysisKeys :
           analyses[id].isAnalyzed => analyses'[id] = analyses[id]]_vars

\* What the code does guarantee: a callback for an analysed target reverts with
\* "Analysis already completed" and writes nothing.
C2_SecondCommitRejected ==
    \A r \in RequestIds, c \in Cleartexts, p \in BOOLEAN :
        (requestToArticleId[r] # 0 /\ analyses[requestToArticleId[r]].isAnalyzed)
            => analyzeBias(St, r, c, p) = Revert(St, "Analysis already completed")

(***************************************************************************)
(* C3                                                                      *)
(***************************************************************************)
\* C3: after a callback with request id r has succeeded, r is no longer in the
\* correlation map and every further callback carrying r fails with
\* "Invalid request" and changes nothing.
C3_ResolvedRequestRemoved ==
    (last.op \in {"analyzeBias", "decryptBiasCount"} /\ last.result = "ok")
        => /\ requestToArticleId[last.arg] = 0
           /\ \A c \in Cleartexts, p \in BOOLEAN :
                  analyzeBias(St, last.arg, c, p) = Revert(St, "Invalid request")
           /\ \A caller \in authorizedAnalysts, c \in CountCleartexts, p \in BOOLEAN :
                  decryptBiasCount(St, caller, last.arg, c, p).result # "ok"

(***************************************************************************)
(* C4                                                                      *)
(***************************************************************************)
\* Request ids are handed out consecutively from 0: r was never registered iff
\* r >= counterRequest.
NeverRegistered(r) == r >= counterRequest

\* C4: a callback (analyzeBias or decryptBiasCount) carrying a request id that
\* no request call registered is rejected, whatever its cleartexts, proof and
\* caller, and leaves the whole storage (analyses, counters, category list,
\* correlation map) as it was.
C4_UnregisteredRequestRejected ==
    \A r \in RequestIds :
        NeverRegistered(r) =>
            /\ \A c \in Cleartexts, p \in BOOLEAN :
                   LET out == analyzeBias(St, r, c, p) IN
                   out.result # "ok" /\ out.storage = St
            /\ \A caller \in Addresses, c \in CountCleartexts, p \in BOOLEAN :
                   LET out == decryptBiasCount(St, caller, r, c, p) IN
                   out.result # "ok" /\ out.storage = St

C4_Witness ==
    /\ last.op = "analyzeBias"
    /\ last.result = "Invalid request"
    /\ counterRequest > 0
    /\ NeverRegistered(last.arg)

(***************************************************************************)
(* C5                                                                      *)
(***************************************************************************)
\* C5: submit, request analysis, authorize and request counter decryption by a
\* caller that is not authorized revert with "Unauthorized analyst" and leave
\* the storage as it was: no article, no id, no request, no grant.
C5_UnauthorizedRejected ==
    \A caller \in Addresses \ authorizedAnalysts :
        /\ \A h1 \in Handles, h2 \in Handles, h3 \in Handles :
               submitEncryptedArticle(St, caller, h1, h2, h3)
                   = Revert(St, "Unauthorized analyst")
        /\ \A id \in ArticleIds :
               requestBiasAnalysis(St, caller, id) = Revert(St, "Unauthorized analyst")
        /\ \A a \in Addresses :
               authorizeAnalyst(St, caller, a) = Revert(St, "Unauthorized analyst")
        /\ \A l \in CategoryInputs :
               requestBiasCountDecryption(St, caller, l)
                   = Revert(St, "Unauthorized analyst")

C5_Witness ==
    /\ last.op = "submitEncryptedArticle"
    /\ last.result = "Unauthorized analyst"
    /\ articleCount = 0
    /\ submitted = <<>>

(***************************************************************************)
(* C6                                                                      *)
(***************************************************************************)
\* C6: authorizeAnalyst by an authorized caller succeeds; a successful
\* authorizeAnalyst(target) adds target to the authorized set and changes
\* nothing else, so for a target already authorized the set stays as it was.
C6_AuthorizeGrantsTarget ==
    /\ [](\A caller \in authorizedAnalysts, target \in Addresses :
              authorizeAnalyst(St, caller, target).result = "ok")
    /\ [][(last'.op = "authorizeAnalyst" /\ last'.result = "ok") =>
              /\ authorizedAnalysts' = authorizedAnalysts \cup {last'.arg}
              /\ (last'.arg \in authorizedAnalysts
                      => authorizedAnalysts' = authorizedAnalysts)
              /\ UNCHANGED <<articleCount, articles, analyses, encryptedBiasCount,
                             biasCategoryList, requestToArticleId, counterRequest,
                             submitted, requested>>]_vars

\* An idempotent grant (to the deployer) has been made after a real one.
C6_Witness ==
    /\ last.op = "authorizeAnalyst"
    /\ last.result = "ok"
    /\ last.arg = Deployer
    /\ Cardinality(authorizedAnalysts) >= 2

(***************************************************************************)
(* C7                                                                      *)
(***************************************************************************)
\* C7: the deployer is authorized in the initial state, and no step removes a
\* principal from the authorized set.
C7_AuthorizationMonotonic ==
    /\ Deployer \in authorizedAnalysts
    /\ [][authorizedAnalysts \subseteq authorizedAnalysts']_vars

C7_Witness ==
    /\ authorizedAnalysts = Addresses
    /\ last.op = "authorizeAnalyst"

(***************************************************************************)
(* C8                                                                      *)
(***************************************************************************)
\* The storage the claim describes after the callback for article a with the
\* decoded triple t.
C8_Claimed(a, t) ==
    LET tier == classifyBiasTier(t[1], t[2])
        before == IF isInitialized(encryptedBiasCount[tier])
                  THEN encryptedBiasCount[tier].value ELSE 0
    IN [result |-> "ok",
        analysis |-> [biasScore |-> tier,
                      comparisonResult |-> classifyDeviation(t[1], t[2]),
                      mediaOutlet |-> identifyOutlet(t[3]),
                      isAnalyzed |-> TRUE],
        counters |-> [l \in CategoryInputs |->
                         IF l = tier THEN [initialized |-> TRUE, value |-> before + 1]
                         ELSE encryptedBiasCount[l]]]

C8_Observed(out, a) ==
    [result |-> out.result,
     analysis |-> out.storage.analyses[a],
     counters |-> out.storage.encryptedBiasCount]

\* A request r registered for a submitted article that is not analysed yet.
C8_Pending(r) ==
    /\ r < counterRequest
    /\ requestToArticleId[r] \in 1..articleCount
    /\ ~analyses[requestToArticleId[r]].isAnalyzed

\* C8: for every submitted article and every decoded triple, a callback with a
\* valid proof on a request registered for the article sets the analysis to
\* (classifyBiasTier, classifyDeviation, identifyOutlet) with isAnalyzed, and
\* adds one to the counter of exactly that tier.
C8_CallbackCommits ==
    \A r \in RequestIds :
        C8_Pending(r) =>
            \A t \in Triples :
                C8_Observed(analyzeBias(St, r, abiEncodeArray(t), TRUE),
                            requestToArticleId[r])
                    = C8_Claimed(requestToArticleId[r], t)

\* What the code does guarantee: the same, for every triple whose uint32
\* arithmetic does not overflow.
C8_CallbackCommitsWithoutOverflow ==
    \A r \in RequestIds :
        C8_Pending(r) =>
            \A t \in Triples :
                ~uint32Overflows(t[1], t[2]) =>
                    C8_Observed(analyzeBias(St, r, abiEncodeArray(t), TRUE),
                                requestToArticleId[r])
                        = C8_Claimed(requestToArticleId[r], t)

(***************************************************************************)
(* C9                                                                      *)
(***************************************************************************)
\* C9: calculateBiasScore returns the tier of score = (2c + 3s) \div 5:
\* HighlyBiased iff score > 80, ModeratelyBiased iff 60 < score <= 80,
\* SlightlyBiased iff 40 < score <= 60, Neutral iff score <= 40.
C9_BiasTier ==
    (fnArgs[1] = "calculateBiasScore" /\ fnOut # Idle)
        => fnOut = classifyBiasTier(fnArgs[2], fnArgs[3])

\* What the code does guarantee: the tier whenever the uint32 arithmetic does
\* not overflow, and a panic otherwise.
C9_BiasTierWithoutOverflow ==
    (fnArgs[1] = "calculateBiasScore" /\ fnOut # Idle)
        => fnOut = IF uint32Overflows(fnArgs[2], fnArgs[3]) THEN Panic
                   ELSE classifyBiasTier(fnArgs[2], fnArgs[3])

(***************************************************************************)
(* C10                                                                     *)
(***************************************************************************)
\* C10: compareWithBaseline returns SignificantDeviation iff
\* max(|c-50|, |s-50|) > 30, ModerateDeviation iff it is in 16..30 and
\* WithinNormalRange iff it is <= 15.
C10_Deviation ==
    (fnArgs[1] = "compareWithBaseline" /\ fnOut # Idle)
        => fnOut = classifyDeviation(fnArgs[2], fnArgs[3])

C10_Witness ==
    /\ fnArgs = <<"compareWithBaseline", 80, 50>>
    /\ fnOut = "ModerateDeviation"

(***************************************************************************)
(* C11                                                                     *)
(***************************************************************************)
\* C11: identifyMediaOutlet(k) returns the label at index k mod 5 of
\* (OutletA, OutletB, OutletC, OutletD, OutletE), for every keyword signature:
\* 0, 1, 2, 3, 4, 5 give OutletA, OutletB, OutletC, OutletD, OutletE, OutletA.
C11_Outlet ==
    /\ (fnArgs[1] = "identifyMediaOutlet" /\ fnOut # Idle)
           => fnOut = identifyOutlet(fnArgs[2])
    /\ <<identifyMediaOutlet(0), identifyMediaOutlet(1), identifyMediaOutlet(2),
          identifyMediaOutlet(3), identifyMediaOutlet(4), identifyMediaOutlet(5)>>
           = <<"OutletA", "OutletB", "OutletC", "OutletD", "OutletE", "OutletA">>

\* The signature 5 has wrapped round to the first label.
C11_Witness ==
    /\ fnArgs = <<"identifyMediaOutlet", 5>>
    /\ fnOut = "OutletA"

(***************************************************************************)
(* C12                                                                     *)
(***************************************************************************)
\* C12: in every reachable state a label is in biasCategoryList iff its
\* encryptedBiasCount is initialized, and no label is in biasCategoryList
\* twice, however often its counter has been incremented.
C12_LockStep ==
    /\ \A l \in CategoryInputs :
           (\E i \in 1..Len(biasCategoryList) : biasCategoryList[i] = l)
               <=> isInitialized(encryptedBiasCount[l])
    /\ \A i \in 1..Len(biasCategoryList), j \in 1..Len(biasCategoryList) :
           biasCategoryList[i] = biasCategoryList[j] => i = j

\* The counter of one label has been incremented twice.
C12_Witness ==
    /\ isInitialized(encryptedBiasCount["HighlyBiased"])
    /\ encryptedBiasCount["HighlyBiased"].value = 2
    /\ biasCategoryList = <<"HighlyBiased">>

(***************************************************************************)
(* C13                                                                     *)
(***************************************************************************)
\* An id no submitEncryptedArticle has assigned.
NeverSubmitted(id) == id = 0 \/ id > articleCount

\* C13: requestBiasAnalysis for an id that was never submitted (0, or above
\* articleCount) fails, whoever the authorized caller is, and registers no
\* request: the storage stays as it was.
C13_UnsubmittedRequestRejected ==
    \A caller \in authorizedAnalysts, id \in ArticleIds :
        NeverSubmitted(id) =>
            LET out == requestBiasAnalysis(St, caller, id) IN
            out.result # "ok" /\ out.storage = St

(***************************************************************************)
(* C14                                                                     *)
(***************************************************************************)
\* C14: requestBiasAnalysis for an id whose analysis is complete reverts with
\* "Analysis already completed" and leaves the storage as it was: no request
\* id is consumed, no entry of requestToArticleId is written and no
\* AnalysisRequested event is emitted.
C14_AnalyzedRequestRejected ==
    \A caller \in authorizedAnalysts, id \in ArticleIds :
        analyses[id].isAnalyzed =>
            LET out == requestBiasAnalysis(St, caller, id) IN
            /\ out.result = "Analysis already completed"
            /\ out.storage.counterRequest = counterRequest
            /\ out.storage.requestToArticleId = requestToArticleId
            /\ out.storage.requested = requested
            /\ out.storage = St

C14_Witness ==
    /\ last.op = "requestBiasAnalysis"
    /\ last.result = "Analysis already completed"
    /\ analyses[last.arg].isAnalyzed
    /\ last.arg \in 1..articleCount

(***************************************************************************)
(* C15                                                                     *)
(***************************************************************************)
\* The requests registered for `target` (an article id or a category hash).
RequestsFor(target) ==
    {r \in RequestIds : r < counterRequest /\ requestToArticleId[r] = target}

\* C15: a submitted article that is not analysed yet has at most one
\* registered request, and while it has one a further requestBiasAnalysis for
\* it is rejected; a requestBiasCountDecryption repeated right after one for the
\* same category succeeded is rejected too.
C15_OneOutstandingRequest ==
    /\ \A a \in 1..articleCount :
           ~analyses[a].isAnalyzed =>
               /\ Cardinality(RequestsFor(a)) <= 1
               /\ RequestsFor(a) # {} =>
                      \A caller \in authorizedAnalysts :
                          requestBiasAnalysis(St, caller, a).result # "ok"
    /\ (last.op = "requestBiasCountDecryption" /\ last.result = "ok") =>
           \A caller \in authorizedAnalysts :
               requestBiasCountDecryption(St, caller, last.arg).result # "ok"

(***************************************************************************)
(* C16                                                                     *)
(***************************************************************************)
\* The label was created by an analysis: it is in the discovery list.
Created(l) == \E i \in 1..Len(biasCategoryList) : biasCategoryList[i] = l

\* C16: requestBiasCountDecryption by an authorized caller reverts with
\* "Category not found" and leaves the storage as it was when the label was
\* never created; when it was, the call succeeds, exactly one entry of
\* requestToArticleId changes, namely that of the fresh request id, which now
\* resolves to the label, and the counters and the discovery list stay.
C16_CounterDecryptionRequest ==
    \A caller \in authorizedAnalysts, l \in CategoryInputs :
        LET out == requestBiasCountDecryption(St, caller, l)
            changed == {r \in RequestIds :
                           out.storage.requestToArticleId[r] # requestToArticleId[r]}
        IN
        IF ~Created(l) THEN out = Revert(St, "Category not found")
        ELSE /\ out.result = "ok"
             /\ changed = {counterRequest}
             /\ NeverRegistered(counterRequest)
             /\ out.storage.counterRequest = counterRequest + 1
             /\ getBiasCategoryFromHash(out.storage,
                    out.storage.requestToArticleId[counterRequest]) = l
             /\ out.storage.encryptedBiasCount = encryptedBiasCount
             /\ out.storage.biasCategoryList = biasCategoryList

\* A counter decryption has been requested for a created label, after one for
\* a label that does not exist was refused.
C16_Witness ==
    /\ last.op = "requestBiasCountDecryption"
    /\ last.result = "ok"
    /\ Created(last.arg)
    /\ RequestsFor(bytes32ToUint(keccak256(last.arg))) = {counterRequest - 1}

(***************************************************************************)
(* C17                                                                     *)
(***************************************************************************)
\* C17: a callback (analyzeBias or decryptBiasCount) whose proof fails
\* FHE.checkSignatures is rejected, whatever its request id and cleartexts, and
\* leaves the analyses, the counters, the discovery list and the correlation
\* map as they were.
C17_FailedVerificationRejected ==
    /\ \A r \in RequestIds, c \in Cleartexts :
           LET out == analyzeBias(St, r, c, FALSE) IN
           /\ out.result # "ok"
           /\ out.storage.analyses = analyses
           /\ out.storage.encryptedBiasCount = encryptedBiasCount
           /\ out.storage.biasCategoryList = biasCategoryList
           /\ out.storage.requestToArticleId = requestToArticleId
    /\ \A caller \in Addresses, r \in RequestIds, c \in CountCleartexts :
           LET out == decryptBiasCount(St, caller, r, c, FALSE) IN
           /\ out.result # "ok"
           /\ out.storage.analyses = analyses
           /\ out.storage.encryptedBiasCount = encryptedBiasCount
           /\ out.storage.biasCategoryList = biasCategoryList
           /\ out.storage.requestToArticleId = requestToArticleId

\* A callback on a pending request has been refused for its proof.
C17_Witness ==
    /\ last.op = "analyzeBias"
    /\ last.result = "Invalid proof"
    /\ C8_Pending(last.arg)

(***************************************************************************)
(* C18                                                                     *)
(***************************************************************************)
\* The cleartexts do not decode to exactly three unsigned integers.
NotATriple(c) ==
    LET decoded == abiDecodeUint32Array(c) IN
    ~decoded.ok \/ Len(decoded.value) # 3

\* C18: a callback with a valid proof on a pending article request whose
\* cleartexts do not decode to exactly three unsigned integers (fewer or more)
\* fails and leaves the storage as it was.
C18_WrongArityRejected ==
    \A r \in RequestIds :
        C8_Pending(r) =>
            \A c \in Cleartexts :
                NotATriple(c) =>
                    LET out == analyzeBias(St, r, c, TRUE) IN
                    out.result # "ok" /\ out.storage = St

\* What the code does guarantee: the same, for cleartexts that do not decode
\* or decode to fewer than three integers.
C18_TooFewRejected ==
    \A r \in RequestIds :
        C8_Pending(r) =>
            \A c \in Cleartexts :
                LET decoded == abiDecodeUint32Array(c) IN
                (~decoded.ok \/ Len(decoded.value) < 3) =>
                    LET out == analyzeBias(St, r, c, TRUE) IN
                    out.result # "ok" /\ out.storage = St

(***************************************************************************)
(* C19                                                                     *)
(***************************************************************************)
\* C19: the queries articles(id) and getBiasAnalysis(id) fail for every id that
\* was never submitted, and leave the storage as it was.
C19_UnknownIdNotFound ==
    \A id \in ArticleIds :
        NeverSubmitted(id) =>
            /\ getArticle(St, id).result # "ok"
            /\ getBiasAnalysis(St, id).result # "ok"
            /\ getArticle(St, id).storage = St
            /\ getBiasAnalysis(St, id).storage = St

(***************************************************************************)
(* C20                                                                     *)
(***************************************************************************)
\* C20: in every reachable state the BiasAnalysis of every id is either empty
\* (three empty labels, isAnalyzed false) or populated (three non-empty labels,
\* isAnalyzed true).
C20_EmptyOrPopulated ==
    \A id \in AnalysisKeys :
        \/ analyses[id] = EmptyAnalysis
        \/ /\ analyses[id].isAnalyzed
           /\ analyses[id].biasScore # ""
           /\ analyses[id].comparisonResult # ""
           /\ analyses[id].mediaOutlet # ""

\* One article is analysed while another is submitted and not analysed.
C20_Witness ==
    /\ articleCount = 2
    /\ analyses[1].isAnalyzed
    /\ analyses[2] = EmptyAnalysis
    /\ last.op = "analyzeBias"
    /\ last.result = "ok"

(***************************************************************************)
(* C21                                                                     *)
(***************************************************************************)
\* requestBiasAnalysis has emitted AnalysisRequested for the id.
Requested(a) == \E i \in 1..Len(requested) : requested[i] = a

CategoryRequest(r) ==
    /\ r < counterRequest
    /\ requestToArticleId[r] \in {bytes32ToUint(keccak256(l)) : l \in CategoryInputs}

\* The request id was registered by requestBiasAnalysis: its entry is an
\* article id.
ArticleRequest(r) ==
    /\ r < counterRequest
    /\ requestToArticleId[r] \in ArticleIds

\* C22: analyzeBias never succeeds on a request id that
\* requestBiasCountDecryption registered, and decryptBiasCount never succeeds on
\* a request id that requestBiasAnalysis registered, whatever the cleartexts,
\* the proof and the caller.
C22_TargetKindsNeverCross ==
    /\ \A r \in RequestIds :
           CategoryRequest(r) =>
               \A c \in Cleartexts, p \in BOOLEAN :
                   analyzeBias(St, r, c, p).result # "ok"
    /\ \A r \in RequestIds :
           ArticleRequest(r) =>
               \A caller \in Addresses, c \in CountCleartexts, p \in BOOLEAN :
                   decryptBiasCount(St, caller, r, c, p).result # "ok"

\* What the code does guarantee: decryptBiasCount finds no category for an
\* article id and reverts.
C22_ArticleRequestNotDecrypted ==
    \A r \in RequestIds :
        ArticleRequest(r) =>
            \A caller \in Addresses, c \in CountCleartexts, p \in BOOLEAN :
                decryptBiasCount(St, caller, r, c, p).result # "ok"

(***************************************************************************)
(* C23                                                                     *)
(***************************************************************************)
\* C23: a decryptBiasCount that succeeds, whatever its caller, request id,
\* cleartexts and proof, leaves every counter, the discovery list, every
\* article and every analysis as they were.
C23_CountCallbackFrame ==
    \A caller \in Addresses, r \in RequestIds, c \in CountCleartexts, p \in BOOLEAN :
        LET out == decryptBiasCount(St, caller, r, c, p) IN
        out.result = "ok" =>
            /\ out.storage.encryptedBiasCount = encryptedBiasCount
            /\ out.storage.biasCategoryList = biasCategoryList
            /\ out.storage.articles = articles
            /\ out.storage.analyses = analyses

\* A count callback has succeeded on a registered category request.
C23_Witness ==
    /\ last.op = "decryptBiasCount"
    /\ last.result = "ok"
    /\ CategoryRequest(last.arg)
    /\ biasCategoryList # <<>>

(***************************************************************************)
(* C24                                                                     *)
(***************************************************************************)
\* C24: decryptBiasCount on a registered category request with a valid proof
\* and an encoded count is accepted from every caller, authorized or not: the
\* outcome does not depend on the caller.
C24_CountCallbackFromAnyCaller ==
    \A r \in RequestIds :
        CategoryRequest(r) =>
            \A caller \in Addresses :
                /\ decryptBiasCount(St, caller, r, abiEncodeUint32(1), TRUE).result = "ok"
                /\ \A c \in CountCleartexts, p \in BOOLEAN :
                       decryptBiasCount(St, caller, r, c, p)
                           = decryptBiasCount(St, Deployer, r, c, p)

\* What the code does guarantee: the callback is accepted from the authorized
\* callers only.
C24_CountCallbackFromAnalyst ==
    \A r \in RequestIds :
        CategoryRequest(r) =>
            \A caller \in Addresses :
                decryptBiasCount(St, caller, r, abiEncodeUint32(1), TRUE).result
                    = IF caller \in authorizedAnalysts THEN "ok"
                      ELSE "Unauthorized analyst"

(***************************************************************************)
(* C25                                                                     *)
(***************************************************************************)
\* The keys among `ids` whose analysis is populated with tier l.
AnalysedAs(l, ids) ==
    {a \in ids : analyses[a].isAnalyzed /\ analyses[a].biasScore = l}

\* C25: for every tier label the counter is initialized iff some article id has
\* a populated analysis with that tier, and its value is the number of those
\* article ids.
C25_CounterCountsArticles ==
    \A l \in TierLabels :
        LET n == Cardinality(AnalysedAs(l, ArticleIds)) IN
        IF isInitialized(encryptedBiasCount[l])
        THEN n >= 1 /\ encryptedBiasCount[l].value = n
        ELSE n = 0

\* What the code does guarantee: the counter is not below the number of
\* populated analyses of the tier, under whatever key they were written.
C25_CounterNotBelowAnalyses ==
    \A l \in TierLabels :
        LET n == Cardinality(AnalysedAs(l, AnalysisKeys)) IN
        IF isInitialized(encryptedBiasCount[l])
        THEN encryptedBiasCount[l].value >= n
        ELSE n = 0

(***************************************************************************)
(* C26                                                                     *)
(***************************************************************************)
\* C26: every key whose analysis has isAnalyzed is the id of a submitted
\* article (1..articleCount), and every request registered by
\* requestBiasAnalysis refers to a submitted article.
C26_AnalysedAndRequestedAreSubmitted ==
    /\ \A id \in AnalysisKeys :
           analyses[id].isAnalyzed => id \in 1..articleCount
    /\ \A r \in RequestIds :
           ArticleRequest(r) => requestToArticleId[r] \in 1..articleCount

(***************************************************************************)
(* C28                                                                     *)
(***************************************************************************)
\* C28: for every decoded pair (contentScore, sentiment) of uint32 values
\* calculateBiasScore returns a tier, and no callback with a valid proof and an
\* encoded triple on a pending article request is rejected with a panic.
C28_NoOverflow ==
    \A r \in RequestIds :
        C8_Pending(r) =>
            \A t \in Triples :
                /\ calculateBiasScore(t[1], t[2]) \in TierLabels
                /\ analyzeBias(St, r, abiEncodeArray(t), TRUE).result # Panic

(***************************************************************************)
(* C27                                                                     *)
(***************************************************************************)
\* C27: when the service keeps delivering a callback with a valid proof and an
\* encoded triple for every registered request, every submitted article for
\* which requestBiasAnalysis has registered a request is eventually analysed.
C27_RequestedEventuallyAnalyzed ==
    \A a \in 1..MaxArticles :
        (a <= articleCount /\ Requested(a)) ~> analyses[a].isAnalyzed

(***************************************************************************)
(* C29                                                                     *)
(***************************************************************************)
\* The ids listed in article_keys.
ListedKeys == {parseKeys(data.article_keys)[n] : n \in 1..Len(parseKeys(data.article_keys))}

\* C29: however the addArticle invocations interleave, the id of every
\* invocation that has reported success is in article_keys from then on, and
\* the loadArticles that ends the invocation lists it.
C29_SuccessfulArticleListed ==
    \A i \in Invocations :
        /\ addArticleCalls[i].status = "success" => articleIdOf(i) \in ListedKeys
        /\ addArticleCalls[i].at = "done" =>
               \E n \in 1..Len(addArticleCalls[i].articles) :
                   addArticleCalls[i].articles[n] = articleIdOf(i)

\* What the code does guarantee: the article bytes of every successful
\* invocation are stored, and every listed key has its article stored.
C29_SuccessfulArticleStored ==
    /\ \A i \in Invocations :
           addArticleCalls[i].status = "success" =>
               data.article[articleIdOf(i)] = stringifyArticle(articleIdOf(i))
    /\ \A k \in ListedKeys : Len(data.article[k]) > 0

====
